---- MODULE Spec2Model ----
(***************************************************************************)
(* Model of the metric-collection / idle-termination loop of               *)
(* automated_scaling_tests.py: get_metric (retry with growing backoff)     *)
(* and collect_realtime_metrics (poll, persist, evaluate, terminate,       *)
(* pace, re-read the fleet membership).                                    *)
(*                                                                         *)
(* Units: times are seconds since `start` (main's time.time()); CPU        *)
(* averages are tenths of a percent, so the threshold 0.5 is 5.            *)
(***************************************************************************)
EXTENDS Integers, Sequences, FiniteSets, TLC

(***************************************************************************)
(* Bounds of the model.                                                    *)
(***************************************************************************)
MaxInstances == 2
MaxCycles == 2
MaxEvents == 2
MaxFlipMetric == 2
MaxLen == 4
MaxFiles == 2

(***************************************************************************)
(* Program constants.                                                      *)
(***************************************************************************)
Threshold == 5
InitialBackoff == 30
BackoffStep == 10
BackoffLimit == 60
WarmUp == 900
Interval == 3600
WindowLength == 3600
Lookback == 3
Period == 300
Retry == 3
LastTry == 2

\* Python's None as the value of metric_object: an optional value is the
\* empty set (None) or the singleton of the value.
None == {}
Some(x) == {x}
Value(opt) == CHOOSE x \in opt : TRUE

\* aws_stop = None (line 226): no window end computed yet.
NoTime == -1

\* Line 240: a row has four fields (instance, metric, average, timestamp).
RowWidth == 4

Instances == 1..MaxInstances

CPU == <<"AWS", "EC2", "CPUUtilization">>

list_of_metrics ==
    << CPU,
       <<"CGCloud", "MemUsage">>,
       <<"CGCloud", "DiskUsage_mnt_ephemeral">>,
       <<"CGCloud", "DiskUsage_root">>,
       <<"AWS", "EC2", "NetworkIn">>,
       <<"AWS", "EC2", "NetworkOut">>,
       <<"AWS", "EC2", "DiskWriteOps">>,
       <<"AWS", "EC2", "DiskReadOps">> >>

\* os.path.basename(metric): the last path component names the file.
basename(metric) == metric[Len(metric)]

FileNames == {basename(list_of_metrics[k]) : k \in 1..Len(list_of_metrics)}

(***************************************************************************)
(* Idle evaluation, lines 250-254.  A datapoint is the tuple               *)
(* <<instance_id, metric, Average, Timestamp>> built at line 240.          *)
(***************************************************************************)
RECURSIVE InsertByTimestamp(_, _)
\* Stable insertion: x goes after every element whose timestamp is <= its own.
InsertByTimestamp(sorted, x) ==
    IF sorted = <<>> THEN <<x>>
    ELSE IF sorted[Len(sorted)][4] <= x[4] THEN Append(sorted, x)
    ELSE Append(InsertByTimestamp(SubSeq(sorted, 1, Len(sorted) - 1), x),
                sorted[Len(sorted)])

RECURSIVE SortedByTimestamp(_)
\* sorted(datapoints, key=lambda x: x[3]) - Python's sort is stable.
SortedByTimestamp(dps) ==
    IF dps = <<>> THEN <<>>
    ELSE InsertByTimestamp(SortedByTimestamp(SubSeq(dps, 1, Len(dps) - 1)),
                           dps[Len(dps)])

\* seq[-3:]
LastThree(seq) ==
    IF Len(seq) <= Lookback THEN seq
    ELSE SubSeq(seq, Len(seq) - Lookback + 1, Len(seq))

\* averages = [x[2] for x in sorted(datapoints, key=lambda x: x[3])][-3:]
Averages(dps) ==
    LET s == LastThree(SortedByTimestamp(dps))
    IN  [k \in 1..Len(s) |-> s[k][3]]

RECURSIVE MaxOf(_)
MaxOf(seq) ==
    IF Len(seq) = 1 THEN seq[1]
    ELSE LET m == MaxOf(SubSeq(seq, 1, Len(seq) - 1))
         IN  IF seq[Len(seq)] > m THEN seq[Len(seq)] ELSE m

\* Variant: the comparison with the threshold is not strict.
IdleVerdictLax(dps) ==
    LET averages == Averages(dps)
    IN  /\ Len(averages) = Lookback
        /\ MaxOf(averages) <= Threshold

\* Variant: any non-empty list of averages is accepted.
IdleVerdictNoLength(dps) ==
    LET averages == Averages(dps)
    IN  /\ Len(averages) >= 1
        /\ MaxOf(averages) < Threshold

\* Variant: one average below the threshold is enough.
IdleVerdictAnyLow(dps) ==
    LET averages == Averages(dps)
    IN  /\ Len(averages) = Lookback
        /\ \E k \in 1..Len(averages) : averages[k] < Threshold

\* if len(averages) == 3: if max(averages) < threshold: kill = True
IdleVerdict(dps) ==
    LET averages == Averages(dps)
    IN  /\ Len(averages) = Lookback
        /\ MaxOf(averages) < Threshold

(***************************************************************************)
(* State.                                                                  *)
(***************************************************************************)
VARIABLES
    pc,                     \* position of the monitor thread ("backoff": in
                            \* time.sleep of line 189; "sleep": in that of
                            \* line 264)
    exc,                    \* exception that ended the thread, or "none"
    ids,                    \* result of the latest get_instance_ids call
    idx,                    \* position of instance_id in ids (for loop, line 232)
    mi,                     \* position of metric in list_of_metrics (line 234)
    kill,                   \* line 233
    backoff,                \* backoff argument of the innermost get_metric frame
    metric_object,          \* line 238
    datapoints,             \* line 235
    aws_start,              \* line 225
    aws_stop,               \* line 226
    metric_collection_time, \* line 231
    files,                  \* the csv file of each metric: sequence of rows
                            \* (a failed write may leave a torn row last)
    now,                    \* time.time()
    fleet,                  \* worker instances alive at the provider
    agentData,              \* the workers publish the non-CPU metrics
    backendDown,            \* CloudWatch answers with BotoServerError
    events,                 \* number of environment events so far
    cycle,                  \* number of passes of the while loop started
    queries,                \* number of get_instance_ids calls made
    served,                 \* datapoints of the latest successful backend call
    cpu_seen,               \* per instance: CPU datapoints obtained this cycle
    polled,                 \* instances whose CPU metric was processed this cycle
    termCalls,              \* instances Terminate was called on this cycle
    termFailed,             \* instances whose Terminate call failed this cycle
    lastFetch,              \* how the latest get_metric call ended
    gotData,                \* instances a fetch returned datapoints for this cycle
    prev_ids,               \* ids before the latest get_instance_ids call
    skipped,                \* <<instance, metric>> given up on this cycle
    attempts,               \* backend calls of the current or latest get_metric call
    error_code,             \* error code of the backend's BotoServerError
    prevFailed,             \* instances whose Terminate call failed last cycle
    main_pc,                \* position of main: "blocked" in launch_pipeline
                            \* (line 294), "joining" in t.join() (line 298)
    exit_status,            \* exit status of the remote launch script, once it exited
    script_succeeded,       \* line 294
    leader,                 \* the leader instance at the provider
    upload                  \* state of the upload_to_ceph script

vars == << agentData, pc, exc, ids, idx, mi, kill, backoff, metric_object, datapoints,
           aws_start, aws_stop, metric_collection_time, files, now, fleet,
           backendDown, events, cycle, queries, served, cpu_seen, polled,
           termCalls, termFailed, lastFetch, gotData, prev_ids, skipped,
           attempts, error_code, prevFailed, main_pc, exit_status,
           script_succeeded, leader, upload >>

(***************************************************************************)
(* Environment: the provider's fleet and the CloudWatch backend.           *)
(***************************************************************************)
\* Seconds between main's `start` and the start of the monitor thread
\* (create_config, fix_launch, launch_cluster run in between).
LaunchDelays == {600}

\* Time spent in the API calls of one collection, beyond the backoff sleeps.
CollectLatencies == {0, 4000}

\* launch_cluster --num-workers n: the fleets the run may start with.
Clusters == { 1..n : n \in 0..MaxInstances }

RECURSIVE SeqOfSet(_)
SeqOfSet(S) ==
    IF S = {} THEN <<>>
    ELSE LET x == CHOOSE y \in S : \A z \in S : y <= z
         IN  <<x>> \o SeqOfSet(S \ {x})

\* get_instance_ids(filter_cluster, filter_name): the live workers.
get_instance_ids(live) == SeqOfSet(live)

Datum(avg, ts) == [Average |-> avg, Timestamp |-> ts]

\* Answers CloudWatch may give for the CPU metric over a window starting at
\* s.  The nominal answer is that of an idle worker; a worker under load and
\* a worker with less than 15 minutes of datapoints are environment events.
\* The short answer lists the later datapoint first, and that datapoint lies
\* on the end of the window (end_time taken as inclusive), which is the start
\* of the next window.
NominalCpu(s) ==
    << Datum(1, s), Datum(1, s + Period), Datum(1, s + 2 * Period) >>

CpuResponses(s) ==
    { NominalCpu(s),
      << Datum(1, s), Datum(6, s + Period), Datum(1, s + 2 * Period) >>,
      << Datum(1, s + WindowLength), Datum(1, s) >>,
      <<>> }

\* Answers for the other metrics: one datapoint at the start of the window
\* when the instances publish them (agentData), none otherwise.
OtherResponses(s) == IF agentData THEN { << Datum(1, s) >> } ELSE { <<>> }

Responses(m, s) == IF m = CPU THEN CpuResponses(s) ELSE OtherResponses(s)

\* An answer other than the nominal one counts as an event.
IsEvent(m, s, resp) == m = CPU /\ resp # NominalCpu(s)

\* Error codes a BotoServerError of get_metric_statistics may carry: the
\* service is unavailable, or it does not know the instance.
ErrorCodes == {"ServiceUnavailable", "NotFound"}

(***************************************************************************)
(* get_metric, lines 164-195.                                              *)
(***************************************************************************)
\* What the outermost frame returns when the backend call of the frame with
\* backoff argument b succeeded with resp: only the frame that made the call
\* assigns metric_object; the callers above it discard the recursive result
\* (line 190) and return their own metric_object, still None.
GetMetricReturn(b, resp) ==
    IF b = InitialBackoff THEN Some(resp) ELSE None

\* Variant: an error with code NotFound is not retried.
MayRetryUnlessNotFound(b) == b <= BackoffLimit /\ error_code # "NotFound"

\* Variant: one more retry is allowed.
MayRetryLonger(b) == b <= BackoffLimit + BackoffStep

\* Line 187: retry while backoff <= 60.
MayRetry(b) == b <= BackoffLimit

\* Variant: the delay doubles.
NextBackoffDouble(b) == b + b

\* Line 190: backoff=backoff+10.
NextBackoff(b) == b + BackoffStep

\* The number of get_metric_statistics calls made so far by the get_metric
\* call in progress: the frame with the default backoff is the first one.
AttemptsSoFar(b, n) == IF b = InitialBackoff THEN 0 ELSE n

(***************************************************************************)
(* collect_realtime_metrics, lines 198-265.                                *)
(***************************************************************************)
instance_id == ids[idx]
metric == list_of_metrics[mi]

\* Lines 239-240.
MakeDatapoints(inst, m, obj) ==
    [k \in 1..Len(obj) |-> << inst, m, obj[k].Average, obj[k].Timestamp >>]

\* Variant: a row whose instance and timestamp are in the file is not written.
WriteRowsDedupe(f, m, dps) ==
    LET old == f[basename(m)]
        fresh == SelectSeq(dps, LAMBDA d :
                     \/ Len(d) < RowWidth
                     \/ \A r \in 1..Len(old) :
                            ~(old[r][1] = d[1] /\ old[r][4] = d[4]))
    IN  [f EXCEPT ![basename(m)] = @ \o fresh]

\* Variant: the file is opened with mode 'w'.
WriteRowsTruncate(f, m, dps) ==
    IF dps # <<>> THEN [f EXCEPT ![basename(m)] = dps] ELSE f

\* Lines 244-247: rows are appended only when there are datapoints.
WriteRows(f, m, dps) ==
    IF dps # <<>> THEN [f EXCEPT ![basename(m)] = @ \o dps] ELSE f

\* Lines 249-254.
EvaluateKill(k, m, dps) ==
    IF m = CPU /\ IdleVerdict(dps) THEN TRUE ELSE k

\* Variant: kill is not reset for each instance.
KillKept(k) == k

\* Line 233.
KillAtInstanceStart(k) == FALSE

\* Variant: while True.
LoopConditionAlways(l) == TRUE

\* Line 230: while ids.
LoopCondition(l) == l # <<>>

\* Variant: the next window starts one period after the end of this one.
NextWindowStartGap(startT, stopT) == stopT + Period

\* Variant: the window is not moved.
NextWindowStartKept(startT, stopT) == startT

\* Line 262.
NextWindowStart(startT, stopT) == stopT

\* Variant: the sleep is cut short.
PacingSleepCancelled(elapsed) == 0

\* Line 264: the argument of time.sleep.
PacingSleep(elapsed) == Interval - elapsed

\* Variant: the window ends at the time of the call.
WindowStopAtNow(startT) == now

\* Variant: the hour is subtracted.
WindowStopBackwards(startT) == startT - WindowLength

\* Line 237.
WindowStop(startT) == startT + WindowLength

\* upload_to_ceph is another script: it is not running.
NotUploading == [pc |-> "off"]

Init ==
    /\ pc = "enumerate"
    /\ exc = "none"
    /\ ids = <<>>
    /\ idx = 0
    /\ mi = 0
    /\ kill = FALSE
    /\ backoff = InitialBackoff
    /\ metric_object = None
    /\ datapoints = <<>>
    /\ aws_start = 0
    /\ aws_stop = NoTime
    /\ metric_collection_time = 0
    /\ files = [n \in FileNames |-> <<>>]
    /\ now \in LaunchDelays
    /\ fleet \in Clusters
    /\ agentData \in BOOLEAN
    /\ backendDown \in BOOLEAN
    /\ error_code \in (IF backendDown THEN ErrorCodes ELSE {"none"})
    /\ events = 0
    /\ cycle = 0
    /\ queries = 0
    /\ served = <<>>
    /\ cpu_seen = [i \in Instances |-> <<>>]
    /\ polled = {}
    /\ termCalls = {}
    /\ termFailed = {}
    /\ lastFetch = "none"
    /\ gotData = {}
    /\ prev_ids = <<>>
    /\ skipped = {}
    /\ attempts = 0
    /\ prevFailed = {}
    /\ main_pc = "blocked"
    /\ exit_status = None
    /\ script_succeeded = FALSE
    /\ leader = "running"
    /\ upload = NotUploading

\* Line 224.
Enumerate ==
    /\ pc = "enumerate"
    /\ prev_ids' = ids
    /\ ids' = get_instance_ids(fleet)
    /\ queries' = queries + 1
    /\ pc' = "warmup"
    /\ UNCHANGED << main_pc, exit_status, script_succeeded, leader,
                    upload, skipped, attempts, error_code, prevFailed,
                    agentData, exc, idx, mi, kill, backoff, metric_object,
                    datapoints, aws_start, aws_stop, metric_collection_time,
                    files, now, fleet, backendDown, events, cycle, served,
                    cpu_seen, polled, termCalls, termFailed, lastFetch,
                    gotData >>

\* Variant: the loop starts without waiting.
WarmUpSleepSkipped ==
    /\ pc = "warmup"
    /\ pc' = "head"
    /\ UNCHANGED << main_pc, exit_status, script_succeeded, leader,
                    upload, skipped, attempts, error_code, prevFailed,
                    agentData, exc, ids, idx, mi, kill, backoff,
                    metric_object, datapoints, aws_start, aws_stop,
                    metric_collection_time, files, now, fleet, backendDown,
                    events, cycle, queries, served, cpu_seen, polled,
                    termCalls, termFailed, lastFetch, gotData, prev_ids >>

\* Line 229.
WarmUpSleep ==
    /\ pc = "warmup"
    /\ now' = now + WarmUp
    /\ pc' = "head"
    /\ UNCHANGED << main_pc, exit_status, script_succeeded, leader,
                    upload, skipped, attempts, error_code, prevFailed,
                    agentData, exc, ids, idx, mi, kill, backoff,
                    metric_object, datapoints, aws_start, aws_stop,
                    metric_collection_time, files, fleet, backendDown, events,
                    cycle, queries, served, cpu_seen, polled, termCalls,
                    termFailed, lastFetch, gotData, prev_ids >>

\* Line 230, condition false: the loop ends and the function returns.
LoopExit ==
    /\ pc = "head"
    /\ ~LoopCondition(ids)
    /\ pc' = "done"
    /\ UNCHANGED << main_pc, exit_status, script_succeeded, leader,
                    upload, skipped, attempts, error_code, prevFailed,
                    agentData, exc, ids, idx, mi, kill, backoff,
                    metric_object, datapoints, aws_start, aws_stop,
                    metric_collection_time, files, now, fleet, backendDown,
                    events, cycle, queries, served, cpu_seen, polled,
                    termCalls, termFailed, lastFetch, gotData, prev_ids >>

\* Lines 230-234, condition true: a collection cycle starts with the first
\* instance of ids (a for loop over an empty list goes straight to line 262).
CycleStart ==
    /\ pc = "head"
    /\ LoopCondition(ids)
    /\ cycle < MaxCycles
    /\ cycle' = cycle + 1
    /\ metric_collection_time' = now
    /\ backoff' = InitialBackoff
    /\ cpu_seen' = [i \in Instances |-> <<>>]
    /\ polled' = {}
    /\ termCalls' = {}
    /\ termFailed' = {}
    /\ prevFailed' = termFailed
    /\ gotData' = {}
    /\ skipped' = {}
    /\ IF ids # <<>>
       THEN /\ idx' = 1
            /\ mi' = 1
            /\ kill' = KillAtInstanceStart(kill)
            /\ pc' = "fetch"
       ELSE /\ UNCHANGED << idx, mi, kill >>
            /\ pc' = "pace"
    /\ UNCHANGED << main_pc, exit_status, script_succeeded, leader,
                    upload, attempts, error_code,
                    agentData, exc, ids, metric_object, datapoints, aws_start,
                    aws_stop, files, now, fleet, backendDown, events, queries,
                    served, lastFetch, prev_ids >>

\* The backend starts or stops answering with BotoServerError, while one of
\* the first MaxFlipMetric metrics of an instance is being fetched or
\* waited for in a backoff sleep (the metrics after the CPU metric are all
\* handled alike).
BackendFlip ==
    /\ pc \in {"fetch", "backoff"}
    /\ mi <= MaxFlipMetric
    /\ events < MaxEvents
    /\ events' = events + 1
    /\ backendDown' = ~backendDown
    /\ error_code' \in (IF backendDown' THEN ErrorCodes ELSE {"none"})
    /\ UNCHANGED << main_pc, exit_status, script_succeeded, leader,
                    upload, skipped, attempts, prevFailed,
                    agentData, pc, exc, ids, idx, mi, kill, backoff,
                    metric_object, datapoints, aws_start, aws_stop,
                    metric_collection_time, files, now, fleet, cycle, queries,
                    served, cpu_seen, polled, termCalls, termFailed,
                    lastFetch, gotData, prev_ids >>

\* Variant: the metric loop is left as soon as the instance is flagged.
ProcessEarlyTerminate(dps) ==
    /\ datapoints' = dps
    /\ files' = WriteRows(files, metric, dps)
    /\ kill' = EvaluateKill(kill, metric, dps)
    /\ cpu_seen' = IF metric = CPU
                   THEN [cpu_seen EXCEPT ![instance_id] = dps] ELSE cpu_seen
    /\ polled' = IF metric = CPU THEN polled \cup {instance_id} ELSE polled
    /\ gotData' = IF dps # <<>> THEN gotData \cup {instance_id} ELSE gotData
    /\ backoff' = InitialBackoff
    /\ IF mi < Len(list_of_metrics) /\ ~kill'
       THEN /\ mi' = mi + 1
            /\ pc' = "fetch"
       ELSE /\ mi' = mi
            /\ pc' = "terminate"

\* Lines 243-254 and the step of the metric loop, with the datapoints dps.
Process(dps) ==
    /\ datapoints' = dps
    /\ files' = WriteRows(files, metric, dps)
    /\ kill' = EvaluateKill(kill, metric, dps)
    /\ cpu_seen' = IF metric = CPU
                   THEN [cpu_seen EXCEPT ![instance_id] = dps] ELSE cpu_seen
    /\ polled' = IF metric = CPU THEN polled \cup {instance_id} ELSE polled
    /\ gotData' = IF dps # <<>> THEN gotData \cup {instance_id} ELSE gotData
    /\ backoff' = InitialBackoff
    /\ IF mi < Len(list_of_metrics)
       THEN /\ mi' = mi + 1
            /\ pc' = "fetch"
       ELSE /\ mi' = mi
            /\ pc' = "terminate"

\* Lines 179-185 succeed in the frame whose backoff argument is `backoff`;
\* get_metric returns to line 238 and lines 239-254 run.
FetchOk ==
    /\ pc = "fetch"
    /\ ~backendDown
    /\ \E resp \in Responses(metric, aws_start) :
         /\ IF IsEvent(metric, aws_start, resp)
            THEN events < MaxEvents /\ events' = events + 1
            ELSE events' = events
         /\ served' = resp
         /\ aws_stop' = WindowStop(aws_start)
         /\ attempts' = AttemptsSoFar(backoff, attempts) + 1
         /\ metric_object' = GetMetricReturn(backoff, resp)
         /\ lastFetch' = IF backoff = InitialBackoff THEN "ok"
                         ELSE "retried_ok"
         /\ IF metric_object' = None
            THEN \* line 239: iterating None raises TypeError, not caught
                 /\ pc' = "crashed"
                 /\ exc' = "TypeError"
                 /\ datapoints' = <<>>
                 /\ UNCHANGED << files, kill, cpu_seen, polled, gotData,
                                 backoff, mi >>
            ELSE /\ Process(MakeDatapoints(instance_id, metric,
                                           Value(metric_object')))
                 /\ exc' = exc
    /\ UNCHANGED << main_pc, exit_status, script_succeeded, leader,
                    upload, skipped, error_code, prevFailed,
                    agentData, ids, idx, aws_start, metric_collection_time,
                    now, fleet, backendDown, cycle, queries, termCalls,
                    termFailed, prev_ids >>

\* Lines 235-238 and 179-189 up to the call of time.sleep: datapoints is
\* emptied and the window end computed before the call; the call raises
\* BotoServerError (whatever its error code) and backoff <= 60, so the
\* frame goes to sleep for backoff seconds.
FetchRetry ==
    /\ pc = "fetch"
    /\ backendDown
    /\ MayRetry(backoff)
    /\ attempts' = AttemptsSoFar(backoff, attempts) + 1
    /\ datapoints' = <<>>
    /\ aws_stop' = WindowStop(aws_start)
    /\ pc' = "backoff"
    /\ UNCHANGED << main_pc, exit_status, script_succeeded, leader,
                    upload, skipped, error_code, prevFailed,
                    agentData, exc, ids, idx, mi, kill, metric_object,
                    aws_start, metric_collection_time, files, now, backoff,
                    fleet, backendDown, events, cycle, queries, served,
                    cpu_seen, polled, termCalls, termFailed, lastFetch,
                    gotData, prev_ids >>

\* Lines 189-190: time.sleep(backoff) returns and get_metric is called
\* again with backoff + 10.
BackoffWake ==
    /\ pc = "backoff"
    /\ now' = now + backoff
    /\ backoff' = NextBackoff(backoff)
    /\ pc' = "fetch"
    /\ UNCHANGED << main_pc, exit_status, script_succeeded, leader,
                    upload, skipped, error_code, prevFailed, attempts,
                    agentData, exc, ids, idx, mi, kill, metric_object,
                    datapoints, aws_start, aws_stop,
                    metric_collection_time, files,
                    fleet, backendDown, events, cycle, queries, served,
                    cpu_seen, polled, termCalls, termFailed, lastFetch,
                    gotData, prev_ids >>

\* Variant: the RuntimeError is not caught by the caller.
FetchGiveUpUncaught ==
    /\ pc = "fetch"
    /\ backendDown
    /\ ~MayRetry(backoff)
    /\ attempts' = AttemptsSoFar(backoff, attempts) + 1
    /\ skipped' = skipped \cup { << instance_id, mi >> }
    /\ aws_stop' = WindowStop(aws_start)
    /\ lastFetch' = "gave_up"
    /\ pc' = "crashed"
    /\ exc' = "RuntimeError"
    /\ datapoints' = <<>>
    /\ UNCHANGED << main_pc, exit_status, script_succeeded, leader,
                    upload, error_code, prevFailed, agentData, ids, idx, mi, kill,
                    backoff, metric_object, aws_start,
                    metric_collection_time, files, now, fleet, backendDown,
                    events, cycle, queries, served, cpu_seen, polled,
                    termCalls, termFailed, gotData, prev_ids >>

\* Lines 191-193 and 241-242: BotoServerError and backoff > 60: RuntimeError
\* leaves every frame of get_metric and is caught at line 241.
FetchGiveUp ==
    /\ pc = "fetch"
    /\ backendDown
    /\ ~MayRetry(backoff)
    /\ attempts' = AttemptsSoFar(backoff, attempts) + 1
    /\ skipped' = skipped \cup { << instance_id, mi >> }
    /\ aws_stop' = WindowStop(aws_start)
    /\ lastFetch' = "gave_up"
    /\ Process(<<>>)
    /\ UNCHANGED << main_pc, exit_status, script_succeeded, leader,
                    upload, error_code, prevFailed,
                    agentData, exc, ids, idx, metric_object, aws_start,
                    metric_collection_time, now, fleet, backendDown, events,
                    cycle, queries, served, termCalls, termFailed, prev_ids >>

\* The step of the instance loop (line 232) after lines 256-260.
NextInstance ==
    IF idx < Len(ids)
    THEN /\ idx' = idx + 1
         /\ mi' = 1
         /\ kill' = KillAtInstanceStart(kill)
         /\ pc' = "fetch"
    ELSE /\ idx' = idx
         /\ mi' = mi
         /\ kill' = kill
         /\ pc' = "pace"

\* Variant: the exception of terminate_instances is not caught.
TerminateIdleUncaught ==
    /\ pc = "terminate"
    /\ kill
    /\ termCalls' = termCalls \cup {instance_id}
    /\ \E ok \in BOOLEAN :
         IF ok
         THEN /\ fleet' = fleet \ {instance_id}
              /\ termFailed' = termFailed
              /\ events' = events
              /\ exc' = exc
              /\ NextInstance
         ELSE /\ events < MaxEvents
              /\ events' = events + 1
              /\ fleet' = fleet
              /\ termFailed' = termFailed \cup {instance_id}
              /\ exc' = "EC2ResponseError"
              /\ pc' = "crashed"
              /\ UNCHANGED << idx, mi, kill >>
    /\ UNCHANGED << main_pc, exit_status, script_succeeded, leader,
                    upload, skipped, attempts, error_code, prevFailed,
                    agentData, ids, backoff, metric_object, datapoints,
                    aws_start, aws_stop, metric_collection_time, files, now,
                    backendDown, cycle, queries, served, cpu_seen,
                    polled, lastFetch, gotData, prev_ids >>

\* Variant: an instance whose termination failed in the previous cycle is
\* not terminated again.
TerminateIdleOnce ==
    /\ pc = "terminate"
    /\ kill
    /\ IF instance_id \in prevFailed
       THEN UNCHANGED << termCalls, termFailed, fleet, events >>
       ELSE /\ termCalls' = termCalls \cup {instance_id}
            /\ \E ok \in BOOLEAN :
                 IF ok
                 THEN /\ fleet' = fleet \ {instance_id}
                      /\ termFailed' = termFailed
                      /\ events' = events
                 ELSE /\ events < MaxEvents
                      /\ events' = events + 1
                      /\ fleet' = fleet
                      /\ termFailed' = termFailed \cup {instance_id}
    /\ NextInstance
    /\ UNCHANGED << main_pc, exit_status, script_succeeded, leader,
                    upload, skipped, attempts, error_code, prevFailed,
                    agentData, exc, ids, backoff, metric_object, datapoints,
                    aws_start, aws_stop, metric_collection_time, files, now,
                    backendDown, cycle, queries, served, cpu_seen,
                    polled, lastFetch, gotData, prev_ids >>

\* Lines 256-260, kill set: terminate_instances is called; it succeeds, or
\* raises EC2ResponseError / BotoServerError, which is logged.
TerminateIdle ==
    /\ pc = "terminate"
    /\ kill
    /\ termCalls' = termCalls \cup {instance_id}
    /\ \E ok \in BOOLEAN :
         IF ok
         THEN /\ fleet' = fleet \ {instance_id}
              /\ termFailed' = termFailed
              /\ events' = events
         ELSE /\ events < MaxEvents
              /\ events' = events + 1
              /\ fleet' = fleet
              /\ termFailed' = termFailed \cup {instance_id}
    /\ NextInstance
    /\ UNCHANGED << main_pc, exit_status, script_succeeded, leader,
                    upload, skipped, attempts, error_code, prevFailed,
                    agentData, exc, ids, backoff, metric_object, datapoints,
                    aws_start, aws_stop, metric_collection_time, files, now,
                    backendDown, cycle, queries, served, cpu_seen,
                    polled, lastFetch, gotData, prev_ids >>

\* Line 256, kill not set.
KeepInstance ==
    /\ pc = "terminate"
    /\ ~kill
    /\ NextInstance
    /\ UNCHANGED << main_pc, exit_status, script_succeeded, leader,
                    upload, skipped, attempts, error_code, prevFailed,
                    agentData, exc, ids, backoff, metric_object, datapoints,
                    aws_start, aws_stop, metric_collection_time, files, now,
                    fleet, backendDown, events, cycle, queries, served,
                    cpu_seen, polled, termCalls, termFailed, lastFetch,
                    gotData, prev_ids >>

\* Lines 245-247, what a write of the rows dps that ends with IOError may
\* leave at the end of the file.  The file is written through a buffer, so
\* the bytes that reached it are a prefix of the text of the batch: the
\* first rows (none when open fails), followed or not by a torn row, the
\* first fields of the next row of which the last may be cut anywhere.  A
\* torn row is the sequence of its fields that are whole; it is shorter
\* than a row.
WrittenBeforeError(dps) ==
    { SubSeq(dps, 1, w) : w \in 0..Len(dps) }
    \cup { SubSeq(dps, 1, w) \o << SubSeq(dps[w + 1], 1, f) >> :
             w \in 0..(Len(dps) - 1), f \in 0..(RowWidth - 1) }

\* Lines 235-247 when open, writerows or the close of the file raises
\* IOError: the datapoints were fetched at the first attempt, a part of the
\* batch may have reached the file, and nothing catches the exception.
FetchWriteFails ==
    /\ pc = "fetch"
    /\ ~backendDown
    /\ backoff = InitialBackoff
    /\ \E resp \in Responses(metric, aws_start) :
         LET cost == IF IsEvent(metric, aws_start, resp) THEN 2 ELSE 1
         IN  /\ resp # <<>>
             /\ events + cost <= MaxEvents
             /\ events' = events + cost
             /\ served' = resp
             /\ metric_object' = GetMetricReturn(backoff, resp)
             /\ datapoints' = MakeDatapoints(instance_id, metric, resp)
             /\ \E written \in WrittenBeforeError(datapoints') :
                  files' = WriteRows(files, metric, written)
    /\ aws_stop' = WindowStop(aws_start)
    /\ attempts' = AttemptsSoFar(backoff, attempts) + 1
    /\ lastFetch' = "ok"
    /\ pc' = "crashed"
    /\ exc' = "IOError: csv file"
    /\ UNCHANGED << main_pc, exit_status, script_succeeded, leader, upload,
                    skipped, error_code, prevFailed, agentData, ids, idx, mi,
                    kill, backoff, aws_start, metric_collection_time,
                    now, fleet, backendDown, cycle, queries, cpu_seen, polled,
                    termCalls, termFailed, gotData, prev_ids >>

\* Lines 262-264 up to the call of time.sleep: the window moves on and the
\* rest of the hour is computed; time.sleep of a negative number raises
\* IOError (Python 2.7), else the thread sleeps.
Pace ==
    /\ pc = "pace"
    /\ aws_start' = NextWindowStart(aws_start, aws_stop)
    /\ \E lat \in CollectLatencies :
         LET elapsed == (now + lat) - metric_collection_time
         IN  /\ now' = now + lat
             /\ IF PacingSleep(elapsed) < 0
                THEN /\ pc' = "crashed"
                     /\ exc' = "IOError"
                ELSE /\ pc' = "sleep"
                     /\ exc' = exc
    /\ UNCHANGED << main_pc, exit_status, script_succeeded, leader,
                    upload, skipped, attempts, error_code, prevFailed,
                    agentData, idx, mi, kill, backoff, metric_object,
                    datapoints, aws_stop, metric_collection_time, files,
                    backendDown, cycle, served, cpu_seen, polled,
                    termCalls, termFailed, lastFetch, gotData,
                    ids, prev_ids, queries, fleet, events >>

\* The provider reclaims a worker while the thread sleeps.
WorkerLost ==
    /\ pc = "sleep"
    /\ events < MaxEvents
    /\ events' = events + 1
    /\ \E x \in fleet : fleet' = fleet \ {x}
    /\ UNCHANGED << main_pc, exit_status, script_succeeded, leader,
                    upload, skipped, attempts, error_code, prevFailed,
                    agentData, idx, mi, kill, backoff, metric_object,
                    datapoints, aws_stop, metric_collection_time, files,
                    backendDown, cycle, served, cpu_seen, polled,
                    termCalls, termFailed, lastFetch, gotData,
                    pc, exc, now, aws_start, ids, prev_ids, queries >>

\* Line 264: time.sleep returns when the rest of the hour has passed.
WakeUp ==
    /\ pc = "sleep"
    /\ now' = now + PacingSleep(now - metric_collection_time)
    /\ pc' = "requery"
    /\ UNCHANGED << main_pc, exit_status, script_succeeded, leader,
                    upload, skipped, attempts, error_code, prevFailed,
                    agentData, idx, mi, kill, backoff, metric_object,
                    datapoints, aws_stop, metric_collection_time, files,
                    backendDown, cycle, served, cpu_seen, polled,
                    termCalls, termFailed, lastFetch, gotData,
                    exc, aws_start, ids, prev_ids, queries, fleet, events >>

\* Line 265: the membership is read again.
Requery ==
    /\ pc = "requery"
    /\ prev_ids' = ids
    /\ ids' = get_instance_ids(fleet)
    /\ queries' = queries + 1
    /\ pc' = "head"
    /\ UNCHANGED << main_pc, exit_status, script_succeeded, leader,
                    upload, skipped, attempts, error_code, prevFailed,
                    agentData, idx, mi, kill, backoff, metric_object,
                    datapoints, aws_stop, metric_collection_time, files,
                    backendDown, cycle, served, cpu_seen, polled,
                    termCalls, termFailed, lastFetch, gotData,
                    exc, now, aws_start, fleet, events >>

Next ==
    \/ Enumerate
    \/ WarmUpSleep
    \/ LoopExit
    \/ CycleStart
    \/ BackendFlip
    \/ FetchOk
    \/ FetchRetry
    \/ BackoffWake
    \/ FetchGiveUp
    \/ FetchWriteFails
    \/ TerminateIdle
    \/ KeepInstance
    \/ Pace
    \/ WorkerLost
    \/ WakeUp
    \/ Requery

Spec == Init /\ [][Next]_vars

(***************************************************************************)
(* main, lines 286-310: the flow that started the monitor thread, running  *)
(* beside it.                                                              *)
(***************************************************************************)
\* Exit statuses of the remote launch script.
ExitStatuses == {0, 1}

\* launch_pipeline, lines 125-143: the script is run with Popen and
\* communicate, which raise no CalledProcessError whatever the exit status,
\* so line 140 is always reached.
launch_pipeline(status) == TRUE

\* Lines 294-297: the remote script has exited with some status and
\* launch_pipeline returns; the monitor thread may still be running.
PipelineReturns ==
    /\ main_pc = "blocked"
    /\ \E status \in ExitStatuses :
         /\ exit_status' = Some(status)
         /\ script_succeeded' = launch_pipeline(status)
    /\ main_pc' = "joining"
    /\ UNCHANGED << leader, upload, skipped, attempts, error_code,
                    prevFailed, agentData, pc, exc, ids, idx, mi, kill,
                    backoff, metric_object, datapoints, aws_start, aws_stop,
                    metric_collection_time, files, now, fleet, backendDown,
                    events, cycle, queries, served, cpu_seen, polled,
                    termCalls, termFailed, lastFetch, gotData, prev_ids >>

\* Lines 298-299: t.join() returns, which it does once the thread has
\* ended, by return or by exception; main then logs 'Metric thread joined,
\* all instances terminated.'
JoinThread ==
    /\ main_pc = "joining"
    /\ pc \in {"done", "crashed"}
    /\ main_pc' = "joined"
    /\ UNCHANGED << exit_status, script_succeeded,
                    leader, upload, skipped, attempts, error_code,
                    prevFailed, agentData, pc, exc, ids, idx, mi, kill,
                    backoff, metric_object, datapoints, aws_start, aws_stop,
                    metric_collection_time, files, now, fleet, backendDown,
                    events, cycle, queries, served, cpu_seen, polled,
                    termCalls, termFailed, lastFetch, gotData, prev_ids >>

\* Lines 301-310: the leader is terminated if script_succeeded (an error of
\* terminate_instances is logged), else an error is logged.
KillLeader ==
    /\ main_pc = "joined"
    /\ main_pc' = "finished"
    /\ IF script_succeeded
       THEN \E ok \in BOOLEAN :
              IF ok
              THEN leader' = "terminated" /\ events' = events
              ELSE /\ events < MaxEvents
                   /\ events' = events + 1
                   /\ leader' = leader
       ELSE UNCHANGED << leader, events >>
    /\ UNCHANGED << exit_status, script_succeeded, upload, skipped, attempts,
                    error_code, prevFailed, agentData, pc, exc, ids, idx, mi,
                    kill, backoff, metric_object, datapoints, aws_start,
                    aws_stop, metric_collection_time, files, now, fleet,
                    backendDown, cycle, queries, served, cpu_seen, polled,
                    termCalls, termFailed, lastFetch, gotData, prev_ids >>

NextMain ==
    \/ Next
    \/ PipelineReturns
    \/ JoinThread
    \/ KillLeader

SpecMain == Init /\ [][NextMain]_vars

(***************************************************************************)
(* The idle evaluation on its own: lines 233 and 249-254 applied to every  *)
(* list of CPU datapoints up to MaxLen.                                    *)
(***************************************************************************)
EvalValues == {1, 5, 6}
EvalTimes == {0, Period, 2 * Period, 3 * Period}
EvalPoints == { << 1, CPU, v, t >> : v \in EvalValues, t \in EvalTimes }
EvalInputs == UNION { [1..n -> EvalPoints] : n \in 0..MaxLen }

InitEval ==
    /\ pc = "eval"
    /\ datapoints \in EvalInputs
    /\ exc = "none"
    /\ ids = << 1 >>
    /\ idx = 1
    /\ mi = 1
    /\ kill = FALSE
    /\ backoff = InitialBackoff
    /\ metric_object = None
    /\ aws_start = 0
    /\ aws_stop = NoTime
    /\ metric_collection_time = 0
    /\ files = [n \in FileNames |-> <<>>]
    /\ now = 0
    /\ fleet = {1}
    /\ agentData = FALSE
    /\ backendDown = FALSE
    /\ error_code = "none"
    /\ events = 0
    /\ cycle = 0
    /\ queries = 0
    /\ served = <<>>
    /\ cpu_seen = [i \in Instances |-> <<>>]
    /\ polled = {}
    /\ termCalls = {}
    /\ termFailed = {}
    /\ lastFetch = "none"
    /\ gotData = {}
    /\ prev_ids = <<>>
    /\ skipped = {}
    /\ attempts = 0
    /\ prevFailed = {}
    /\ main_pc = "blocked"
    /\ exit_status = None
    /\ script_succeeded = FALSE
    /\ leader = "running"
    /\ upload = NotUploading

Evaluate ==
    /\ pc = "eval"
    /\ kill' = EvaluateKill(KillAtInstanceStart(kill), metric, datapoints)
    /\ pc' = "evaluated"
    /\ UNCHANGED << main_pc, exit_status, script_succeeded, leader,
                    upload, skipped, attempts, error_code, prevFailed,
                    agentData, exc, ids, idx, mi, backoff, metric_object,
                    datapoints, aws_start, aws_stop, metric_collection_time,
                    files, now, fleet, backendDown, events, cycle, queries,
                    served, cpu_seen, polled, termCalls, termFailed,
                    lastFetch, gotData, prev_ids >>

SpecEval == InitEval /\ [][Evaluate]_vars

(***************************************************************************)
(* upload_to_ceph.py: every file of a directory is uploaded to the bucket   *)
(* with up to three tries.  Files are numbered 1..n in the order of        *)
(* os.listdir.  The fields of `upload`: pc, n (number of files), file (the  *)
(* position of f in files), try (the loop variable i), failures, stored    *)
(* (the files whose key is in the bucket), succeeded (the files of which   *)
(* a try ended with the object stored: upload completed or key already     *)
(* present), cancelled (the files of which a try cancelled the multipart    *)
(* upload) and tries (the calls of upload_file per file).                  *)
(***************************************************************************)
\* How a call of upload_file for file x can end.  Lines 12-15: the key
\* exists and nothing is done.  Lines 17-37: the parts are uploaded and the
\* upload is completed.  Lines 38-40: the part count differs and the upload
\* is cancelled.  Any call to the store may raise instead.
Outcomes(x, stored) ==
    IF x \in stored THEN {"exists", "raised"}
    ELSE {"completed", "cancelled", "raised"}

\* Lines 50-53, with the directory listing and the bucket as found.
InitUpload ==
    /\ \E n \in 0..MaxFiles : \E present \in SUBSET (1..n) :
         upload = [pc |-> "loop", n |-> n, file |-> 1, try |-> 0,
                   failures |-> <<>>, stored |-> present, succeeded |-> {},
                   cancelled |-> {}, tries |-> [x \in 1..n |-> 0]]
    /\ pc = "off"
    /\ exc = "none"
    /\ ids = <<>>
    /\ idx = 0
    /\ mi = 0
    /\ kill = FALSE
    /\ backoff = InitialBackoff
    /\ metric_object = None
    /\ datapoints = <<>>
    /\ aws_start = 0
    /\ aws_stop = NoTime
    /\ metric_collection_time = 0
    /\ files = [n \in FileNames |-> <<>>]
    /\ now = 0
    /\ fleet = {}
    /\ agentData = FALSE
    /\ backendDown = FALSE
    /\ error_code = "none"
    /\ events = 0
    /\ cycle = 0
    /\ queries = 0
    /\ served = <<>>
    /\ cpu_seen = [i \in Instances |-> <<>>]
    /\ polled = {}
    /\ termCalls = {}
    /\ termFailed = {}
    /\ lastFetch = "none"
    /\ gotData = {}
    /\ prev_ids = <<>>
    /\ skipped = {}
    /\ attempts = 0
    /\ prevFailed = {}
    /\ main_pc = "blocked"
    /\ exit_status = None
    /\ script_succeeded = FALSE
    /\ leader = "running"

\* Lines 58-62: upload_file returns, whichever way, and `break` leaves the
\* retry loop: the for loop of line 54 takes the next file.
UploadReturns ==
    /\ upload.pc = "loop"
    /\ upload.file <= upload.n
    /\ \E o \in Outcomes(upload.file, upload.stored) \ {"raised"} :
         upload' = [upload EXCEPT
                      !.tries[upload.file] = @ + 1,
                      !.stored = IF o = "completed"
                                 THEN @ \cup {upload.file} ELSE @,
                      !.succeeded = IF o \in {"completed", "exists"}
                                    THEN @ \cup {upload.file} ELSE @,
                      !.cancelled = IF o = "cancelled"
                                    THEN @ \cup {upload.file} ELSE @,
                      !.file = @ + 1,
                      !.try = 0]
    /\ UNCHANGED << main_pc, exit_status, script_succeeded, leader, skipped,
                    attempts, error_code, prevFailed, agentData, pc, exc, ids,
                    idx, mi, kill, backoff, metric_object, datapoints,
                    aws_start, aws_stop, metric_collection_time, files, now,
                    fleet, backendDown, events, cycle, queries, served,
                    cpu_seen, polled, termCalls, termFailed, lastFetch,
                    gotData, prev_ids >>

\* Lines 58-68: upload_file raises; on the third try (i == 2) the file is
\* appended to failures and the retry loop is over, else the next try.
UploadRaises ==
    /\ upload.pc = "loop"
    /\ upload.file <= upload.n
    /\ "raised" \in Outcomes(upload.file, upload.stored)
    /\ upload' = [upload EXCEPT
                    !.tries[upload.file] = @ + 1,
                    !.failures = IF upload.try = LastTry
                                 THEN Append(@, upload.file) ELSE @,
                    !.file = IF upload.try + 1 < Retry THEN @ ELSE @ + 1,
                    !.try = IF upload.try + 1 < Retry THEN @ + 1 ELSE 0]
    /\ UNCHANGED << main_pc, exit_status, script_succeeded, leader, skipped,
                    attempts, error_code, prevFailed, agentData, pc, exc, ids,
                    idx, mi, kill, backoff, metric_object, datapoints,
                    aws_start, aws_stop, metric_collection_time, files, now,
                    fleet, backendDown, events, cycle, queries, served,
                    cpu_seen, polled, termCalls, termFailed, lastFetch,
                    gotData, prev_ids >>

\* Lines 70-72: the loop over the files is over; the failures are printed.
UploadDone ==
    /\ upload.pc = "loop"
    /\ upload.file > upload.n
    /\ upload' = [upload EXCEPT !.pc = "done"]
    /\ UNCHANGED << main_pc, exit_status, script_succeeded, leader, skipped,
                    attempts, error_code, prevFailed, agentData, pc, exc, ids,
                    idx, mi, kill, backoff, metric_object, datapoints,
                    aws_start, aws_stop, metric_collection_time, files, now,
                    fleet, backendDown, events, cycle, queries, served,
                    cpu_seen, polled, termCalls, termFailed, lastFetch,
                    gotData, prev_ids >>

NextUpload ==
    \/ UploadReturns
    \/ UploadRaises
    \/ UploadDone

SpecUpload == InitUpload /\ [][NextUpload]_vars

(***************************************************************************)
(* Reference idle policy with N = 3, stated without sorting: the latest    *)
(* three datapoints are three positions that every other position         *)
(* precedes (earlier timestamp, or same timestamp and earlier in the      *)
(* list).                                                                  *)
(***************************************************************************)
Precedes(dps, j, k) ==
    \/ dps[j][4] < dps[k][4]
    \/ dps[j][4] = dps[k][4] /\ j < k

LatestThree(dps) ==
    CHOOSE S \in SUBSET (1..Len(dps)) :
        /\ Cardinality(S) = 3
        /\ \A j \in (1..Len(dps)) \ S : \A k \in S : Precedes(dps, j, k)

RefIdle(dps) ==
    /\ Len(dps) >= 3
    /\ \A k \in LatestThree(dps) : dps[k][3] < Threshold

ValuesOf(dps) == [k \in 1..Len(dps) |-> dps[k][3]]
TimesOf(dps) == [k \in 1..Len(dps) |-> dps[k][4]]

Range(seq) == { seq[k] : k \in 1..Len(seq) }

\* The rows of the file n as a reader of the csv file gets them: a torn
\* row left by a failed write is not a row.
WholeRows(n) == SelectSeq(files[n], LAMBDA r : Len(r) = RowWidth)

\* C1: Terminate is called on an instance only if that instance itself was
\* flagged idle in the same cycle: its own three latest CPU samples of the
\* cycle are all below the threshold, whatever the other instances reported.
C1_OnlyFlaggedTerminated ==
    \A i \in termCalls :
        /\ i \in polled
        /\ RefIdle(cpu_seen[i])

\* A cycle ended in which one instance was terminated while another one,
\* whose samples include a value at or above the threshold, was not.
C1_Witness ==
    /\ pc = "pace"
    /\ \E i \in termCalls : \E j \in polled \ termCalls :
         \E k \in 1..Len(cpu_seen[j]) : cpu_seen[j][k][3] >= Threshold

\* C2: the idle verdict of the Evaluate step equals the reference policy with
\* N = 3: false with fewer than 3 values, else true iff the maximum of the 3
\* latest values is strictly below the threshold; [0.1,0.1,0.1] is idle,
\* [0.1,0.6,0.1] is not, a value equal to the threshold is not.
C2_VerdictIsReference ==
    pc = "evaluated" =>
        /\ kill = RefIdle(datapoints)
        /\ Len(datapoints) < 3 => ~kill
        /\ ValuesOf(datapoints) = << 1, 1, 1 >> => kill
        /\ ValuesOf(datapoints) = << 1, 6, 1 >> => ~kill
        /\ (Len(datapoints) = 3 /\ Threshold \in Range(ValuesOf(datapoints)))
             => ~kill

\* Four datapoints out of timestamp order whose oldest is busy: idle.
C2_Witness ==
    /\ pc = "evaluated"
    /\ kill
    /\ ValuesOf(datapoints) = << 1, 6, 1, 1 >>
    /\ TimesOf(datapoints) = << 3 * Period, 0, Period, 2 * Period >>

\* C3: in no cycle is Terminate called on an instance for which fewer than 3
\* CPU samples were obtained in that cycle (none at all included).
C3_NoKillOnShortHistory ==
    \A i \in polled : Len(cpu_seen[i]) < 3 => i \notin termCalls

\* A cycle ended with an instance that reported two low samples and one whose
\* CPU fetch failed after all retries, neither terminated.
C3_Witness ==
    /\ pc = "pace"
    /\ \E i \in polled : Len(cpu_seen[i]) = 2 /\ i \notin termCalls
    /\ \E j \in polled : Len(cpu_seen[j]) = 0 /\ j \notin termCalls

\* C4: when an attempt of get_metric fails with a transient error and a later
\* retry succeeds, get_metric returns the datapoints of the successful
\* attempt, and the caller persists them.
C4_RetryKeepsData ==
    lastFetch = "retried_ok" =>
        /\ metric_object = Some(served)
        /\ \A k \in 1..Len(served) :
             \E n \in FileNames : \E r \in 1..Len(WholeRows(n)) :
                /\ WholeRows(n)[r][3] = served[k].Average
                /\ WholeRows(n)[r][4] = served[k].Timestamp

\* C5: a transient backend error followed by a successful retry does not end
\* the loop: no exception leaves collect_realtime_metrics.
C5_TransientNeverAborts ==
    lastFetch = "retried_ok" => (pc # "crashed" /\ exc = "none")

\* C6: a transient error on a fetch of instance A does not prevent the
\* fetches of the instances that follow A in the same cycle.
C6_FetchIsolation ==
    (lastFetch = "retried_ok" /\ idx < Len(ids)) =>
        pc \notin {"crashed", "done"}

\* C7: a failed Terminate call is logged and the loop goes on: the instance
\* loop continues with the next instance, every later instance flagged idle
\* gets its own Terminate call, the cycle ends with every instance polled,
\* and the instance whose termination failed is in the next membership
\* result, hence polled again, as long as the provider still has it.
C7_TerminationIsolation ==
    [][ /\ (pc = "terminate" /\ termFailed' # termFailed) =>
             /\ pc' \in {"fetch", "pace"}
             /\ exc' = "none"
             /\ ids' = ids
             /\ (idx < Len(ids) => idx' = idx + 1)
        /\ (pc = "terminate" /\ kill /\ termFailed # {}) =>
             instance_id \in termCalls'
        /\ (pc = "terminate" /\ pc' = "pace") => polled' = Range(ids')
        /\ (pc = "requery" /\ pc' = "head") =>
             \A x \in termFailed : x \in fleet' => x \in Range(ids')
        /\ (pc = "head" /\ pc' = "fetch") => ids'[idx'] = ids[1]
      ]_vars

\* The Terminate call of the first instance failed, the second instance was
\* terminated in the same cycle, and the first is in the next membership.
C7_Witness ==
    /\ pc = "head"
    /\ 1 \in termFailed
    /\ 2 \in termCalls \ termFailed
    /\ 1 \in Range(ids)

\* C8: when the first membership query is non-empty and the second is empty,
\* the loop makes exactly one pass over the instances of the first list and
\* halts; nothing happens after it halted.
C8_OneCycleThenHalt ==
    /\ [](queries = 2 /\ ids = <<>> =>
            /\ prev_ids # <<>>
            /\ cycle = 1
            /\ polled = Range(prev_ids)
            /\ pc \in {"head", "done"})
    /\ [][ /\ pc # "done"
           /\ (pc = "head" /\ ids = <<>>) =>
                /\ pc' = "done"
                /\ UNCHANGED << files, fleet, termCalls, lastFetch, cycle,
                                queries >>
         ]_vars

C8_Witness ==
    /\ pc = "done"
    /\ queries = 2
    /\ cycle = 1
    /\ polled = {1, 2}

\* C9: empty membership is the only terminal state: the loop halts as soon
\* as a membership query returns the empty list (after zero cycles when it is
\* the first query) and never halts while the latest query was non-empty.
C9_OnlyEmptyFleetHalts ==
    /\ pc \in {"done", "crashed"} => ids = <<>>
    /\ (queries >= 1 /\ ids = <<>>) =>
          (pc \in {"warmup", "head", "done"} /\ cycle = queries - 1)

\* C10 as stated: when a fetch for an instance yielded no samples in the
\* cycle, the window of the next cycle starts at the same timestamp.
C10_WatermarkKept ==
    [][ (pc = "pace" /\ pc' = "sleep" /\ Range(ids) \ gotData # {})
           => aws_start' = aws_start ]_vars

\* C10 amended: also when a fetch for an instance yielded no samples, the
\* window moves on: at the end of every cycle the start of the next window
\* is set to the end of this one, one hour later.
C10_WindowMovesAnyway ==
    [][ (pc = "pace" /\ Range(ids) \ gotData # {})
           => (aws_start' = aws_stop /\ aws_start' = aws_start + WindowLength)
      ]_vars

\* An instance without any sample in the first cycle is polled in the second
\* cycle over the second hour.
C10_Witness ==
    /\ pc = "fetch"
    /\ cycle = 2
    /\ files = [n \in FileNames |-> <<>>]
    /\ aws_start = WindowLength

\* The fetch of the current metric fails with BotoServerError in this step
\* (a retry or the give-up): the backend is down and this is not a step of
\* the environment.
FetchFails == pc = "fetch" /\ backendDown /\ events' = events

\* The retries of the fetch are exhausted in this step.
GivesUp == pc = "fetch" /\ skipped' # skipped

\* C11 as stated: when the retries of a fetch were exhausted in a cycle, the
\* window is not moved: the next cycle starts at the same timestamp and
\* fetches the same window again.
C11_WindowRefetched ==
    [][ (pc = "pace" /\ skipped # {}) => aws_start' = aws_start ]_vars

\* C11 amended: when the retries of a fetch are exhausted the metric is
\* skipped for this cycle (no datapoints, no row written, no verdict, the loop
\* goes on with the next metric or the end of the instance), and the window
\* still moves on by one hour at the end of the cycle: the skipped window is
\* not fetched again.
C11_SkippedAndWindowMoves ==
    [][ /\ GivesUp =>
             /\ datapoints' = <<>>
             /\ files' = files
             /\ kill' = kill
             /\ exc' = "none"
             /\ idx' = idx
             /\ IF mi < Len(list_of_metrics)
                THEN pc' = "fetch" /\ mi' = mi + 1
                ELSE pc' = "terminate"
             /\ aws_start' = aws_start
        /\ (pc = "pace" /\ skipped # {}) =>
             aws_start' = aws_start + WindowLength
      ]_vars

\* A cycle in which a fetch was given up has ended, the fleet is not empty,
\* and the next cycle will fetch the second hour.
C11_Witness ==
    /\ pc = "head"
    /\ skipped # {}
    /\ ids # <<>>
    /\ aws_start = WindowLength

\* C12: the start of the fetch window never decreases from one cycle to the
\* next (it grows at the end of every cycle).
C12_WindowStartMonotonic ==
    [][ /\ aws_start' >= aws_start
        /\ pc = "pace" => aws_start' > aws_start
      ]_vars

\* Two cycles have ended and the window has moved twice.
C12_Witness ==
    /\ pc = "head"
    /\ cycle = 2
    /\ aws_start = 2 * WindowLength

\* The number of attempts of one get_metric call under a backend that fails
\* every time: backoff arguments 30, 40, 50, 60 retry, 70 raises.
RetryDepth == (BackoffLimit - InitialBackoff) \div BackoffStep + 2

\* C13: the retry of get_metric is bounded: the number of attempts of one
\* call (the depth of its recursion) never exceeds a constant, and under a
\* backend that fails on every attempt each failure is followed, after the
\* backoff sleep, by a retry one level deeper until, at that depth, the call
\* ends with RuntimeError surfaced to its caller.
C13_RetryBounded ==
    /\ [](/\ attempts <= RetryDepth
          /\ backoff <= BackoffLimit + BackoffStep
          /\ (pc = "fetch" /\ backoff # InitialBackoff) =>
                attempts = (backoff - InitialBackoff) \div BackoffStep
          /\ pc = "backoff" =>
                attempts = (backoff - InitialBackoff) \div BackoffStep + 1)
    /\ [][ /\ FetchFails =>
               /\ attempts' = AttemptsSoFar(backoff, attempts) + 1
               /\ IF attempts' < RetryDepth
                  THEN /\ pc' = "backoff"
                       /\ skipped' = skipped
                  ELSE /\ lastFetch' = "gave_up"
                       /\ << instance_id, mi >> \in skipped'
                       /\ backoff' = InitialBackoff
                       /\ exc' = "none"
           /\ (pc = "backoff" /\ pc' # pc) =>
               /\ pc' = "fetch"
               /\ backoff' > backoff
               /\ idx' = idx
               /\ mi' = mi
         ]_vars

\* A call of get_metric has ended with RuntimeError at the maximal depth and
\* the loop is about to fetch the next metric.
C13_Witness ==
    /\ pc = "fetch"
    /\ lastFetch = "gave_up"
    /\ attempts = RetryDepth
    /\ backoff = InitialBackoff

\* C14 as stated, its last part: the failure is surfaced to the caller after
\* at most 4 fetch attempts in total.
C14_AtMostFourAttempts ==
    (lastFetch = "gave_up" /\ backoff = InitialBackoff) => attempts <= 4

\* C14 amended: the delay before the first retry is 30 seconds and each later
\* retry waits 10 seconds more than the previous one (30, 40, 50, 60); the
\* failure is surfaced to the caller after exactly 5 fetch attempts.
C14_BackoffSchedule ==
    [][ /\ (FetchFails /\ ~GivesUp) =>
             /\ attempts' \in 1..4
             /\ pc' = "backoff"
        /\ (pc = "backoff" /\ pc' = "fetch") =>
             now' - now = 30 + 10 * (attempts - 1)
        /\ GivesUp =>
             /\ attempts' = 5
             /\ now' = now
      ]_vars

\* The first fetch of a cycle was given up: 30 + 40 + 50 + 60 seconds after
\* the cycle started the loop is at the second metric.
C14_Witness ==
    /\ pc = "fetch"
    /\ idx = 1
    /\ mi = 2
    /\ lastFetch = "gave_up"
    /\ attempts = 5
    /\ now = metric_collection_time + 180

\* Every fetch of the cycle (every instance of ids, every metric) was given
\* up after the last retry.
AllFetchesFailed ==
    /\ ids # <<>>
    /\ skipped = Range(ids) \X (1..Len(list_of_metrics))

\* C15: when every fetch of a cycle failed, no instance was terminated in the
\* cycle, and the end of the cycle leads to the pacing sleep and the next
\* membership query, not to a crash.
C15_OutageSurvived ==
    [][ (pc = "pace" /\ AllFetchesFailed) =>
            /\ termCalls = {}
            /\ pc' = "sleep"
            /\ exc' = "none"
      ]_vars

\* C16: when the collection of a cycle took longer than the collection
\* interval, the loop does not fail: it goes on to the next membership query.
C16_OverrunProceeds ==
    [][ (pc = "pace" /\ now' - metric_collection_time > Interval) =>
            /\ pc' = "sleep"
            /\ exc' = "none"
      ]_vars

\* C17 as stated: when the backend answers a fetch with NotFound, the fetch
\* is not retried with backoff, no further metric of the instance is fetched
\* in the cycle, and the instance is not terminated by the loop.
C17_NotFoundDropsInstance ==
    [][ /\ (FetchFails /\ error_code = "NotFound") =>
             /\ pc' # "backoff"
             /\ backoff' = InitialBackoff
             /\ pc' = "fetch" => idx' # idx
        /\ (pc = "terminate" /\ error_code = "NotFound"
              /\ << instance_id, Len(list_of_metrics) >> \in skipped) =>
             instance_id \notin termCalls'
      ]_vars

\* C17 amended: NotFound is handled as any other BotoServerError.  The fetch
\* is retried after 30, 40, 50 and 60 seconds and given up at the fifth
\* failure; the loop then goes on with the next metric of the same instance,
\* which stays in ids for the rest of the cycle; and the instance is
\* terminated at the end of its metrics exactly when its CPU datapoints of
\* the cycle flagged it idle.
C17_NotFoundIsRetried ==
    [][ /\ (FetchFails /\ error_code = "NotFound") =>
             /\ ids' = ids
             /\ idx' = idx
             /\ kill' = kill
             /\ IF backoff <= BackoffLimit
                THEN /\ pc' = "backoff"
                     /\ mi' = mi
                ELSE /\ attempts' = 5
                     /\ datapoints' = <<>>
                     /\ IF mi < Len(list_of_metrics)
                        THEN pc' = "fetch" /\ mi' = mi + 1
                        ELSE pc' = "terminate"
        /\ (pc = "backoff" /\ pc' = "fetch") =>
             /\ now' = now + backoff
             /\ backoff' = backoff + BackoffStep
             /\ ids' = ids /\ idx' = idx /\ mi' = mi
        /\ (pc = "terminate" /\ error_code = "NotFound") =>
             /\ instance_id \in termCalls' <=> kill
             /\ kill <=> RefIdle(cpu_seen[instance_id])
      ]_vars

\* The CPU datapoints of an instance flagged it idle, then the backend
\* answered NotFound for its other metrics, each given up after the retries,
\* and the instance is about to be terminated.
C17_Witness ==
    /\ pc = "terminate"
    /\ kill
    /\ error_code = "NotFound"
    /\ \A k \in 2..Len(list_of_metrics) : << instance_id, k >> \in skipped

\* The loop has gone through all the metrics of the instance at position k of
\* ids in this cycle, line 256 included.
Processed(k) ==
    \/ pc \in {"fetch", "terminate", "crashed"} /\ k < idx
    \/ pc \in {"pace", "sleep", "requery"}
    \/ pc = "crashed" /\ exc = "IOError"

\* C18: an instance whose Terminate call failed in the previous cycle and
\* that is still in the fleet is in the membership of this cycle; when its
\* CPU datapoints of this cycle flag it idle again, Terminate is called on it
\* again in this cycle; and an instance on which a Terminate call succeeded
\* has left the fleet.
C18_TerminationRetried ==
    /\ prevFailed \cap fleet \subseteq Range(ids)
    /\ \A k \in 1..Len(ids) :
         (/\ ids[k] \in prevFailed
          /\ cycle >= 2
          /\ Processed(k)
          /\ ids[k] \in polled
          /\ RefIdle(cpu_seen[ids[k]]))
         => ids[k] \in termCalls
    /\ (termCalls \ termFailed) \cap fleet = {}

\* The Terminate call of instance 1 failed in the first cycle; in the second
\* cycle the instance was idle again, Terminate was called again and
\* succeeded.
C18_Witness ==
    /\ pc = "pace"
    /\ cycle = 2
    /\ 1 \in prevFailed
    /\ 1 \in termCalls \ termFailed
    /\ 1 \notin fleet

\* C19 as stated: the file of a metric holds at most one row per (instance,
\* timestamp) pair.
C19_NoDuplicateRows ==
    \A n \in FileNames : \A r1, r2 \in 1..Len(WholeRows(n)) :
        (/\ WholeRows(n)[r1][1] = WholeRows(n)[r2][1]
         /\ WholeRows(n)[r1][4] = WholeRows(n)[r2][4])
            => r1 = r2

\* C19 amended: the store is a plain append without deduplication: every
\* fetch that returns datapoints, unless the write itself fails, adds exactly
\* one row per datapoint returned, in the order returned, to the file of its
\* metric, also when a row with the same instance and timestamp is already
\* in the file; a write that fails adds the first rows of the batch, or
\* none, and may leave after them a torn row, the beginning of the next row
\* of the batch.
C19_EveryDatapointAppended ==
    [][ (pc = "fetch" /\ ~backendDown /\ backendDown' = backendDown
           /\ metric_object' # None) =>
            LET n == basename(metric)
                old == Len(files[n])
            IN  /\ Len(files'[n]) <= old + Len(served')
                /\ exc' = "none" => Len(files'[n]) = old + Len(served')
                /\ \A k \in 1..(Len(files'[n]) - old) :
                     LET row == << instance_id, metric, served'[k].Average,
                                   served'[k].Timestamp >>
                         got == files'[n][old + k]
                     IN  \/ got = row
                         \/ /\ exc' # "none"
                            /\ k = Len(files'[n]) - old
                            /\ Len(got) < Len(row)
                            /\ got = SubSeq(row, 1, Len(got))
      ]_vars

\* The CPU file holds two rows of instance 1 with the timestamp of the
\* boundary between the first and the second window.
C19_Witness ==
    \E r1, r2 \in 1..Len(WholeRows(basename(CPU))) :
        /\ r1 < r2
        /\ WholeRows(basename(CPU))[r1][1] = 1
        /\ WholeRows(basename(CPU))[r2][1] = 1
        /\ WholeRows(basename(CPU))[r1][4] = WindowLength
        /\ WholeRows(basename(CPU))[r2][4] = WindowLength

\* C20: no step of the loop removes or rewrites a row written earlier: the
\* file of every metric after a step starts with the file before the step.
C20_AppendOnly ==
    [][ \A n \in FileNames :
          /\ Len(files'[n]) >= Len(files[n])
          /\ SubSeq(files'[n], 1, Len(files[n])) = files[n]
      ]_vars

\* The thread ended with an exception in the second cycle and the CPU file
\* holds the rows of the first cycle followed by rows of the second.
C20_Witness ==
    /\ pc = "crashed"
    /\ cycle = 2
    /\ Len(WholeRows(basename(CPU))) > Lookback
    /\ WholeRows(basename(CPU))[1][4] = 0
    /\ WholeRows(basename(CPU))[Len(WholeRows(basename(CPU)))][4]
          >= WindowLength

\* C21: when the csv file of a metric cannot be opened or written, the loop
\* stops and the error reaches the caller of the loop: main does not get to
\* log that the metric thread joined and all instances are terminated.
C21_PersistenceErrorSurfaced ==
    exc = "IOError: csv file" =>
        /\ pc = "crashed"
        /\ main_pc \in {"blocked", "joining"}

\* C26: whenever main is past the join on the monitor thread, the monitor
\* loop has ended because a membership query returned the empty list, and
\* no worker is left in the fleet.
C26_JoinMeansDrained ==
    main_pc \in {"joined", "finished"} =>
        /\ pc = "done"
        /\ ids = <<>>
        /\ fleet = {}

\* C27: launch_pipeline returns True exactly when the launch script exited
\* with status 0, the leader is terminated by main only in that case, and
\* after a non-zero exit status the leader is left running.
C27_LeaderKilledOnlyOnSuccess ==
    /\ main_pc # "blocked" => (script_succeeded <=> exit_status = Some(0))
    /\ leader = "terminated" => exit_status = Some(0)
    /\ (main_pc = "finished" /\ exit_status # Some(0)) => leader = "running"

\* C22: end-to-end scenario with a fleet of instances 1 (A) and 2 (B).  When
\* in the first cycle A reports three CPU values below the threshold and B
\* three values of which one is not, the cycle ends with A terminated and B
\* not; in the cycle after it only B is polled; when B then reports three
\* values below the threshold B is terminated; and when the membership query
\* after that returns the empty list the loop halts.
C22_Scenario ==
    /\ (/\ cycle = 1 /\ pc = "pace" /\ ids = << 1, 2 >>
        /\ RefIdle(cpu_seen[1]) /\ ~RefIdle(cpu_seen[2])
        /\ termFailed = {})
          => /\ termCalls = {1}
             /\ 1 \notin fleet
             /\ 2 \in fleet
    /\ (cycle = 2 /\ ids = << 2 >> /\ pc \in {"fetch", "terminate", "pace"})
          => /\ polled \subseteq {2}
             /\ termCalls \subseteq {2}
             /\ (pc \in {"terminate", "pace"} => polled = {2})
    /\ (/\ cycle = 2 /\ pc = "pace" /\ ids = << 2 >>
        /\ RefIdle(cpu_seen[2]) /\ termFailed = {})
          => /\ termCalls = {2}
             /\ fleet = {}
    /\ (cycle = 2 /\ prev_ids = << 2 >> /\ ids = <<>>)
          => pc \in {"head", "done"}

\* The scenario ran to its end: A idle and B busy in the first hour, B idle
\* and terminated in the second, the third membership query empty, the loop
\* halted.
C22_Witness ==
    /\ pc = "done"
    /\ cycle = 2
    /\ queries = 3
    /\ prev_ids = << 2 >>
    /\ termCalls = {2}
    /\ fleet = {}
    /\ \E r \in 1..Len(WholeRows("CPUUtilization")) :
         /\ WholeRows("CPUUtilization")[r][1] = 2
         /\ WholeRows("CPUUtilization")[r][3] >= Threshold
         /\ WholeRows("CPUUtilization")[r][4] < WindowLength
    /\ \A r \in 1..Len(WholeRows("CPUUtilization")) :
         WholeRows("CPUUtilization")[r][1] = 1
           => /\ WholeRows("CPUUtilization")[r][3] < Threshold
              /\ WholeRows("CPUUtilization")[r][4] < WindowLength
    /\ Len(WholeRows("CPUUtilization")) = 3 * Lookback

\* C23: no metric is fetched and no instance is terminated before the
\* warm-up delay of 15 minutes has passed since the loop was entered: until
\* then no backend call was made, no instance polled or terminated and no
\* row written, and whenever the loop is past the warm-up the clock is at
\* least 15 minutes after the start of the thread.
C23_WarmUpFirst ==
    /\ pc \in {"enumerate", "warmup"} =>
          /\ now \in LaunchDelays
          /\ attempts = 0
          /\ lastFetch = "none"
          /\ cycle = 0
          /\ polled = {}
          /\ termCalls = {}
          /\ fleet \in Clusters
          /\ files = [n \in FileNames |-> <<>>]
    /\ (pc \notin {"enumerate", "warmup"} \/ attempts > 0 \/ termCalls # {})
          => \A d \in LaunchDelays : now >= d + WarmUp

\* The first cycle polled and terminated an instance with the clock exactly
\* 15 minutes after the start of the thread.
C23_Witness ==
    /\ pc = "pace"
    /\ cycle = 1
    /\ termCalls # {}
    /\ \E d \in LaunchDelays : now = d + WarmUp
    /\ metric_collection_time = now

\* C24 as stated: every fetch is issued with a window that ends at or after
\* the time at which the fetch is made.
C24_WindowEndsAfterFetch ==
    [][ (pc = "fetch" /\ backendDown' = backendDown) => aws_stop' >= now ]_vars

\* C24 amended: every fetch is issued with the window that starts at the
\* watermark and ends one hour after the watermark, whatever the time at
\* which the fetch is made: once a fetch of the cycle was issued the window
\* end is the watermark plus one hour, also when that is in the past.
C24_WindowIsWatermarkHour ==
    /\ pc \in {"terminate", "pace"} => aws_stop = aws_start + WindowLength
    /\ (pc = "fetch" /\ (idx > 1 \/ mi > 1 \/ backoff # InitialBackoff))
          => aws_stop = aws_start + WindowLength
    /\ aws_stop \in {NoTime, aws_start, aws_start + WindowLength}

\* A fetch is about to be issued, after others of the same cycle, at a time
\* later than the end of the window it asks for.
C24_Witness ==
    /\ pc = "fetch"
    /\ idx > 1
    /\ aws_stop = aws_start + WindowLength
    /\ now > aws_stop

\* The seconds slept by the get_metric call in progress when its innermost
\* frame has the backoff argument b: 30 + 40 + ... + (b - 10).
SleptSoFar(b) ==
    (((b - InitialBackoff) \div BackoffStep)
        * (InitialBackoff + b - BackoffStep)) \div 2

\* C25 as stated: the pacing sleep is the only point at which the loop
\* suspends: time passes in no other step of the loop.
C25_OnlyPacingSuspends ==
    [][ now' # now => pc \in {"pace", "sleep"} ]_vars

\* C25 amended: the loop suspends at three points, the warm-up sleep, the
\* backoff sleeps of get_metric and the pacing sleep, and none of them is
\* cut short: the loop is at its head only 15 minutes after the start of the
\* thread or a full hour after the start of the latest cycle, and a fetch
\* that is being retried has slept out every backoff delay so far.
C25_SleepsRunInFull ==
    /\ (pc = "head" /\ cycle = 0) => \E d \in LaunchDelays : now = d + WarmUp
    /\ (pc \in {"requery", "head", "done"} /\ cycle >= 1)
          => now = metric_collection_time + Interval
    /\ pc = "sleep" => now - metric_collection_time <= Interval
    /\ pc \in {"fetch", "backoff"}
          => now - metric_collection_time >= SleptSoFar(backoff)

\* A cycle in which a fetch slept out its backoff delays and was given up
\* ended with the pacing sleep: the membership was read again one hour
\* after the cycle started.
C25_Witness ==
    /\ pc = "head"
    /\ cycle = 1
    /\ queries = 2
    /\ skipped # {}
    /\ now = metric_collection_time + Interval
    /\ \E d \in LaunchDelays : metric_collection_time = d + WarmUp

\* C28: within a cycle Terminate is called for an instance only after every
\* configured metric of the instance was fetched or given up and the
\* fetched datapoints were appended to the csv files, and nothing is fetched
\* or written for the instance after its Terminate call: the decision is
\* taken after the last metric, the loop is past every terminated instance,
\* and the files hold the CPU datapoints of a terminated instance and, when
\* the workers publish the other metrics, a row of this window for each
\* metric that was not given up.
C28_TerminateAfterAllMetrics ==
    /\ pc = "terminate" => mi = Len(list_of_metrics)
    /\ pc \in {"fetch", "terminate"} => instance_id \notin termCalls
    /\ pc \in {"fetch", "terminate", "pace", "sleep", "requery"} =>
          \A i \in termCalls :
            /\ \E k \in 1..Len(ids) :
                  ids[k] = i /\ (k < idx \/ pc \notin {"fetch", "terminate"})
            /\ i \in polled
            /\ Range(cpu_seen[i]) \subseteq Range(WholeRows(basename(CPU)))
            /\ agentData =>
                 \A k \in 2..Len(list_of_metrics) :
                    \/ << i, k >> \in skipped
                    \/ \E row \in
                          Range(WholeRows(basename(list_of_metrics[k]))) :
                          row[1] = i
                          /\ row[4] = (cycle - 1) * WindowLength

\* The first instance was terminated with a row of this window in each of
\* the eight files, and the loop is fetching a later metric of the second
\* instance.
C28_Witness ==
    /\ pc = "fetch"
    /\ idx = 2
    /\ mi > 1
    /\ agentData
    /\ termCalls = {1}
    /\ skipped = {}
    /\ \A n \in FileNames : \E row \in Range(WholeRows(n)) :
          row[1] = 1 /\ row[4] = aws_start

\* C29: all fetches of a cycle use the same window of one hour and the
\* window of a cycle starts where the window of the cycle before it ended,
\* so the windows tile the time from the run start (time 0): during cycle k
\* the window starts at (k - 1) hours, whatever the fetches returned, its
\* end is k hours once computed, and when the cycle is over the next window
\* starts at k hours.
C29_WindowsTile ==
    /\ cycle = 0 => (aws_start = 0 /\ aws_stop = NoTime)
    /\ (cycle >= 1 /\ pc \in {"fetch", "terminate", "pace"})
          => aws_start = (cycle - 1) * WindowLength
    /\ (cycle >= 1 /\ pc \in {"sleep", "requery", "head", "done"})
          => (aws_start = cycle * WindowLength /\ aws_stop = aws_start)
    /\ pc = "crashed"
          => aws_start \in {(cycle - 1) * WindowLength, cycle * WindowLength}
    /\ cycle >= 1
          => aws_stop \in {NoTime, (cycle - 1) * WindowLength,
                           cycle * WindowLength}

\* The second cycle ended: its fetches used the second hour, and the files
\* hold datapoints of the first hour and of the second.
C29_Witness ==
    /\ pc = "pace"
    /\ cycle = 2
    /\ aws_start = WindowLength
    /\ aws_stop = 2 * WindowLength
    /\ \E row \in Range(WholeRows(basename(CPU))) : row[4] < WindowLength
    /\ \E row \in Range(WholeRows(basename(CPU))) :
          row[4] >= WindowLength /\ row[4] < 2 * WindowLength

\* C30: in upload_to_ceph, once the upload loop has processed a file, the
\* file is listed in failures if and only if none of its tries ended with
\* the object stored (upload completed or key already present); a file
\* whose multipart upload was cancelled is tried again.
C30_FailuresIffNotStored ==
    upload.pc \in {"loop", "done"} =>
        \A x \in 1..upload.n :
            x < upload.file =>
                /\ x \in Range(upload.failures) <=> x \notin upload.succeeded
                /\ (x \in upload.cancelled /\ x \notin upload.succeeded)
                      => upload.tries[x] > 1

====
